---------------------------- MODULE Spec2Model ----------------------------
(***************************************************************************)
(* A model of the pkg-config shim luavsg_pkg_config.py: the metadata       *)
(* parser (_parse_pc), the variable expander (_expand), the package index  *)
(* (_candidate_roots, _find_pc_files), the query engine (_collect) and the *)
(* command dispatcher (_main).                                             *)
(*                                                                         *)
(* A Python str is modelled as a sequence of one-character strings, so     *)
(* that strip, split, the ${...} regular expression and " ".join are       *)
(* computed character by character as the code computes them.  A dict is a *)
(* function whose domain is its key set.                                   *)
(***************************************************************************)
EXTENDS Naturals, Sequences, FiniteSets, TLC

VARIABLES
    \* _expand(s, vars_)
    s, vars_, prev, cur, passes, epc,
    \* _parse_pc(path)
    lines, ln, pvars, fields, ppc,
    \* the filesystem and the environment one invocation sees
    fs,
    \* _find_pc_files(roots)
    roots, ri, fi, out, failed, ipc,
    \* _main(argv) and _collect(pkgs)
    argv, pkgs, index, ci, cflags, libs, stdout, status, exc, readErr, pc

expandVars == <<s, vars_, prev, cur, passes, epc>>
parseVars  == <<lines, ln, pvars, fields, ppc>>
indexVars  == <<roots, ri, fi, out, failed, ipc>>
mainVars   ==
    <<argv, pkgs, index, ci, cflags, libs, stdout, status, exc, readErr, pc>>
vars       == <<expandVars, parseVars, fs, indexVars, mainVars>>

-----------------------------------------------------------------------------
(* Strings *)

\* str.strip() with no argument removes leading and trailing whitespace.
Whitespace == {" ", "\t"}

RECURSIVE LStrip(_)
LStrip(t) ==
    IF t # <<>> /\ Head(t) \in Whitespace THEN LStrip(Tail(t)) ELSE t

RECURSIVE RStrip(_)
RStrip(t) ==
    IF t # <<>> /\ t[Len(t)] \in Whitespace
    THEN RStrip(SubSeq(t, 1, Len(t) - 1))
    ELSE t

Strip(t) == RStrip(LStrip(t))

\* c in t
Contains(t, c) == \E i \in 1..Len(t) : t[i] = c

\* index of the first c in t; 0 when there is none
IndexOf(t, c) ==
    IF Contains(t, c)
    THEN CHOOSE i \in 1..Len(t) : t[i] = c /\ \A j \in 1..(i - 1) : t[j] # c
    ELSE 0

\* t.split(c, 1) for a t that contains c: the text before and after the first c
SplitOnce(t, c) ==
    LET i == IndexOf(t, c)
    IN  <<SubSeq(t, 1, i - 1), SubSeq(t, i + 1, Len(t))>>

EndsWith(t, c) == t # <<>> /\ t[Len(t)] = c

StartsWith(t, c) == t # <<>> /\ t[1] = c

\* t.split(): the maximal runs of non-whitespace characters, in order
RECURSIVE SplitWs(_)
SplitWs(t) ==
    LET u == LStrip(t)
        stops == {i \in 1..Len(u) : u[i] \in Whitespace}
        e == IF stops = {} THEN Len(u) + 1
             ELSE CHOOSE i \in stops : \A j \in stops : i <= j
    IN  IF u = <<>> THEN <<>>
        ELSE <<SubSeq(u, 1, e - 1)>> \o SplitWs(SubSeq(u, e, Len(u)))

\* " ".join(tokens)
RECURSIVE Join(_)
Join(tokens) ==
    IF tokens = <<>> THEN <<>>
    ELSE IF Len(tokens) = 1 THEN tokens[1]
    ELSE tokens[1] \o <<" ">> \o Join(Tail(tokens))

\* dict.get(key, default)
Get(d, key, default) == IF key \in DOMAIN d THEN d[key] ELSE default

\* d[key] = value
Put(d, key, value) ==
    [k \in (DOMAIN d) \cup {key} |-> IF k = key THEN value ELSE d[k]]

\* d.setdefault(key, value)
SetOverwrites(d, key, value) == Put(d, key, value)
SetDefault(d, key, value) ==
    IF key \in DOMAIN d THEN d ELSE Put(d, key, value)

EmptyDict == [k \in {} |-> <<>>]

-----------------------------------------------------------------------------
(* _expand *)

\* for _ in range(10)
MaxPasses == 10

\* _VAR_RE = \$\{([^}]+)\} tried at position i of t: the position of the
\* closing brace of the match, 0 when the expression does not match there.
\* [^}]+ takes every character up to the first closing brace and needs one.
MatchEnd(t, i) ==
    IF i + 1 <= Len(t) /\ t[i] = "$" /\ t[i + 1] = "{"
    THEN LET closes == {j \in (i + 2)..Len(t) : t[j] = "}"}
             j0 == IF closes = {} THEN 0
                   ELSE CHOOSE j \in closes : \A k \in closes : j <= k
         IN  IF j0 > i + 2 THEN j0 ELSE 0
    ELSE 0

\* repl(m): the value of the variable named by group 1, "" when unmapped
ReplKeepsUnmapped(d, key) ==
    IF key \in DOMAIN d THEN d[key] ELSE <<"$", "{">> \o key \o <<"}">>
Repl(d, key) == Get(d, key, <<>>)

\* _VAR_RE.sub(repl, cur): one left-to-right pass over the non-overlapping
\* matches, each replaced by vars_.get(key, ""); the replacement is not
\* rescanned within the pass.
RECURSIVE SubFrom(_, _, _)
SubFrom(t, i, d) ==
    IF i > Len(t) THEN <<>>
    ELSE LET e == MatchEnd(t, i)
         IN  IF e > 0
             THEN Repl(d, SubSeq(t, i + 2, e - 1)) \o SubFrom(t, e + 1, d)
             ELSE <<t[i]>> \o SubFrom(t, i + 1, d)

Sub(t, d) == SubFrom(t, 1, d)

\* prev == cur, where prev is None before the first pass: prev is the empty
\* set for None and {string} otherwise.
BreakNever(p, c) == FALSE
PrevIsCur(p, c) == p = {c}

ExpandPass ==
    /\ epc = "loop"
    /\ passes < MaxPasses
    /\ ~PrevIsCur(prev, cur)
    /\ prev' = {cur}
    /\ cur' = Sub(cur, vars_)
    /\ passes' = passes + 1
    /\ UNCHANGED <<s, vars_, epc>>

ExpandBreak ==
    /\ epc = "loop"
    /\ passes < MaxPasses
    /\ PrevIsCur(prev, cur)
    /\ epc' = "done"
    /\ UNCHANGED <<s, vars_, prev, cur, passes>>

ExpandExhausted ==
    /\ epc = "loop"
    /\ passes = MaxPasses
    /\ epc' = "done"
    /\ UNCHANGED <<s, vars_, prev, cur, passes>>

\* the whole of _expand as a function: what the loop returns
RECURSIVE ExpandLoop(_, _, _, _)
ExpandLoop(p, c, n, d) ==
    IF n = MaxPasses \/ PrevIsCur(p, c) THEN c
    ELSE ExpandLoop({c}, Sub(c, d), n + 1, d)

Expand(t, d) == ExpandLoop({}, t, 0, d)

-----------------------------------------------------------------------------
(* _parse_pc *)

\* not line or line.startswith("#"), line being raw.strip()
IsIgnored(line) == line = <<>> \/ StartsWith(line, "#")

\* ":" in line and not line.split(":", 1)[0].strip().endswith("=")
IsFieldLine(line) ==
    /\ Contains(line, ":")
    /\ ~EndsWith(Strip(SplitOnce(line, ":")[1]), "=")

\* k.strip() and v.strip() of line.split(sep, 1)
KeyOf(line, sep) == Strip(SplitOnce(line, sep)[1])
ValueOf(line, sep) == Strip(SplitOnce(line, sep)[2])

\* one iteration of the loop over the lines: d is [vars, fields]
ParseLine(d, raw) ==
    LET line == Strip(raw)
    IN  IF IsIgnored(line) THEN d
        ELSE IF IsFieldLine(line)
        THEN [d EXCEPT !.fields =
                Put(d.fields, KeyOf(line, ":"), ValueOf(line, ":"))]
        ELSE IF Contains(line, "=")
        THEN [d EXCEPT !.vars =
                Put(d.vars, KeyOf(line, "="), ValueOf(line, "="))]
        ELSE d

\* the whole of _parse_pc on the lines of a file that was read
RECURSIVE ParseFrom(_, _, _)
ParseFrom(d, text, i) ==
    IF i > Len(text) THEN d
    ELSE ParseFrom(ParseLine(d, text[i]), text, i + 1)

ParsePc(text) == ParseFrom([vars |-> EmptyDict, fields |-> EmptyDict], text, 1)

NextLine == Strip(lines[ln + 1])

\* blank line or comment: continue
ParseIgnored ==
    /\ ppc = "loop" /\ ln < Len(lines)
    /\ IsIgnored(NextLine)
    /\ ln' = ln + 1
    /\ UNCHANGED <<lines, pvars, fields, ppc>>

\* fields[k.strip()] = v.strip()
ParseField ==
    /\ ppc = "loop" /\ ln < Len(lines)
    /\ ~IsIgnored(NextLine)
    /\ IsFieldLine(NextLine)
    /\ fields' = Put(fields, KeyOf(NextLine, ":"), ValueOf(NextLine, ":"))
    /\ ln' = ln + 1
    /\ UNCHANGED <<lines, pvars, ppc>>

\* vars_[k.strip()] = v.strip()
ParseVar ==
    /\ ppc = "loop" /\ ln < Len(lines)
    /\ ~IsIgnored(NextLine)
    /\ ~IsFieldLine(NextLine)
    /\ Contains(NextLine, "=")
    /\ pvars' = Put(pvars, KeyOf(NextLine, "="), ValueOf(NextLine, "="))
    /\ ln' = ln + 1
    /\ UNCHANGED <<lines, fields, ppc>>

\* neither a field nor an assignment: the loop goes on
ParseOther ==
    /\ ppc = "loop" /\ ln < Len(lines)
    /\ ~IsIgnored(NextLine)
    /\ ~IsFieldLine(NextLine)
    /\ ~Contains(NextLine, "=")
    /\ ln' = ln + 1
    /\ UNCHANGED <<lines, pvars, fields, ppc>>

\* return PcFile(...)
ParseReturn ==
    /\ ppc = "loop" /\ ln = Len(lines)
    /\ ppc' = "done"
    /\ UNCHANGED <<lines, ln, pvars, fields>>

-----------------------------------------------------------------------------
(* The filesystem and the environment *)

\* Directories: two that PKG_CONFIG_PATH may list, and the three fixed
\* candidates <repo>/lib, <repo>/lib/zstd_build and <repo>/lib/zstd_build/lib,
\* each of which lies inside the one before.
Dirs == {"p1", "p2", "lib", "zb", "zbl"}

\* the directories a recursive walk of d descends into, d included
Under(d) ==
    CASE d = "lib" -> {"lib", "zb", "zbl"}
      [] d = "zb" -> {"zb", "zbl"}
      [] OTHER -> {d}

\* A metadata file <dir>/<name>.pc is [name, dir]: pc.stem is its name and
\* pc.parent its dir.
PcPath(name, dir) == [name |-> name, dir |-> dir]

\* _split_path_list: the entries of PKG_CONFIG_PATH that are not blank
IsBlankEntry(e) == e = ""
SplitPathList(entries) == SelectSeq(entries, LAMBDA e : ~IsBlankEntry(e))

\* _candidate_roots: the listed directories, then the three fixed ones, those
\* that exist, in that order
CandidateRoots(f) ==
    SelectSeq(SplitPathList(f.pathlist) \o <<"lib", "zb", "zbl">>,
              LAMBDA r : r \in f.exists)

-----------------------------------------------------------------------------
(* _find_pc_files *)

\* root.rglob("*.pc"): f.walk[root] is the sequence of paths the walk of root
\* yields, and the walk raises after the last of them when root is in
\* f.raises.
Yielded(f, root) == f.walk[root]

\* the inner loop over one root: out.setdefault(pc.stem, pc) for each path
RECURSIVE VisitAll(_, _, _)
VisitAll(d, paths, i) ==
    IF i > Len(paths) THEN d
    ELSE VisitAll(SetDefault(d, paths[i].name, paths[i]), paths, i + 1)

\* the outer loop: an exception ends the walk of that root only (continue),
\* what was inserted before it stays
RECURSIVE FindFrom(_, _, _, _)
FindFrom(d, f, rs, i) ==
    IF i > Len(rs) THEN d
    ELSE FindFrom(VisitAll(d, Yielded(f, rs[i]), 1), f, rs, i + 1)

FindPcFiles(f, rs) == FindFrom(EmptyDict, f, rs, 1)

IndexVisit ==
    /\ ipc = "walk" /\ ri <= Len(roots)
    /\ fi < Len(Yielded(fs, roots[ri]))
    /\ LET pcp == Yielded(fs, roots[ri])[fi + 1]
       IN  out' = SetDefault(out, pcp.name, pcp)
    /\ fi' = fi + 1
    /\ UNCHANGED <<roots, ri, failed, ipc>>

\* the walk of this root ends
IndexNextRoot ==
    /\ ipc = "walk" /\ ri <= Len(roots)
    /\ fi = Len(Yielded(fs, roots[ri]))
    /\ roots[ri] \notin fs.raises
    /\ ri' = ri + 1
    /\ fi' = 0
    /\ UNCHANGED <<roots, out, failed, ipc>>

\* except Exception: continue
IndexRootRaises ==
    /\ ipc = "walk" /\ ri <= Len(roots)
    /\ fi = Len(Yielded(fs, roots[ri]))
    /\ roots[ri] \in fs.raises
    /\ failed' = failed \cup {ri}
    /\ ri' = ri + 1
    /\ fi' = 0
    /\ UNCHANGED <<roots, out, ipc>>

\* return out
IndexReturn ==
    /\ ipc = "walk" /\ ri > Len(roots)
    /\ ipc' = "done"
    /\ UNCHANGED <<roots, ri, fi, out, failed>>

-----------------------------------------------------------------------------
(* _main and _collect *)

\* _VERSION = "0.0.0-luavsg"
VersionString == <<"0", ".", "0", ".", "0", "-", "l", "u", "a", "v", "s", "g">>

FlagVersion == <<"-", "-", "v", "e", "r", "s", "i", "o", "n">>
FlagExists == <<"-", "-", "e", "x", "i", "s", "t", "s">>
FlagModversion == <<"-", "-", "m", "o", "d", "v", "e", "r", "s", "i", "o", "n">>
FlagCflags == <<"-", "-", "c", "f", "l", "a", "g", "s">>
FlagLibs == <<"-", "-", "l", "i", "b", "s">>

KeyVersion == <<"V", "e", "r", "s", "i", "o", "n">>
KeyCflags == <<"C", "f", "l", "a", "g", "s">>
KeyLibs == <<"L", "i", "b", "s">>
KeyPcfiledir == <<"p", "c", "f", "i", "l", "e", "d", "i", "r">>

\* "--flag" in argv
Has(av, flag) == \E i \in 1..Len(av) : av[i] = flag

\* pkgs = [a for a in argv if a and not a.startswith("-")]
IsPkgArg(a) == a # <<>> /\ ~StartsWith(a, "-")
PkgArgs(av) == SelectSeq(av, IsPkgArg)

\* want_exists or want_mod or want_cflags or want_libs
WantsAny(av) ==
    \/ Has(av, FlagExists) \/ Has(av, FlagModversion)
    \/ Has(av, FlagCflags) \/ Has(av, FlagLibs)

\* for p in pkgs: if p not in index: return 1 ... return 0
AnyKnown(idx, ps) == \E i \in 1..Len(ps) : ps[i] \in DOMAIN idx
AllKnown(idx, ps) == \A i \in 1..Len(ps) : ps[i] \in DOMAIN idx

\* str(pc_path.parent)
DirString(d) ==
    CASE d = "p1" -> <<"/", "p", "1">>
      [] d = "p2" -> <<"/", "p", "2">>
      [] d = "lib" -> <<"/", "r", "/", "l", "i", "b">>
      [] d = "zb" -> <<"/", "r", "/", "l", "i", "b", "/", "z", "b">>
      [] OTHER -> <<"/", "r", "/", "l", "i", "b", "/", "z", "b", "/", "l", "i", "b">>

\* the lines of each metadata file
TextA1 ==
    << <<"p", "=", "/", "u">>,
       <<"C", "f", "l", "a", "g", "s", ":", " ", "-", "I", "$", "{", "p",
         "}", "/", "i", " ", "-", "D", "A">>,
       <<"L", "i", "b", "s", ":", " ", "-", "L", "$", "{", "p", "}", " ",
         "-", "l", "a">>,
       <<"L", "i", "b", "s", ".", "p", "r", "i", "v", "a", "t", "e", ":",
         " ", "-", "l", "m">>,
       <<"V", "e", "r", "s", "i", "o", "n", ":", " ", "1">> >>
TextA2 ==
    << <<"#", " ", "a">>,
       <<"C", "f", "l", "a", "g", "s", ":", " ", "-", "I", "$", "{", "p",
         "c", "f", "i", "l", "e", "d", "i", "r", "}">>,
       <<"L", "i", "b", "s", ":", " ", "-", "l", "z">> >>
TextB ==
    << <<"p", "c", "f", "i", "l", "e", "d", "i", "r", "=", "/", "o">>,
       <<"C", "f", "l", "a", "g", "s", ":", " ", "-", "I", "$", "{", "p",
         "c", "f", "i", "l", "e", "d", "i", "r", "}", " ", "-", "D", "B">>,
       <<"L", "i", "b", "s", ":", " ", " ", "-", "l", "b", " ">>,
       <<"V", "e", "r", "s", "i", "o", "n", ":", " ", "$", "{", "v", "}",
         "2">> >>

\* path.read_text(...).splitlines() when the read succeeds
LinesOf(p) ==
    CASE p = PcPath(<<"a">>, "p1") -> TextA1
      [] p = PcPath(<<"a">>, "lib") -> TextA2
      [] p = PcPath(<<"b">>, "lib") -> TextB
      [] OTHER -> <<>>

\* what path.read_text can do at the time of the read: succeed, or raise
\* FileNotFoundError (the file went away after the walk) or another OSError
\* (PermissionError, IsADirectoryError: rglob yields directories named *.pc)
ReadErrors == {"FileNotFoundError", "OSError"}

\* vars_ = dict(pc.vars), with pcfiledir seeded when the file does not set it
SeededVars(parsed, p) == SetDefault(parsed.vars, KeyPcfiledir, DirString(p.dir))

\* _expand(pc.fields.get(field, ""), vars_).split()
FieldTokens(p, field) ==
    LET parsed == ParsePc(LinesOf(p))
    IN  SplitWs(Expand(Get(parsed.fields, field, <<>>), SeededVars(parsed, p)))

\* the exit status of the process: raise SystemExit(_main(sys.argv[1:])); an
\* exception that leaves _main ends the interpreter with status 1
UncaughtStatus == 1

\* except FileNotFoundError: return 1
NotFoundReturnsZero == 1 - 1
NotFoundStatus == 1

\* sys.stdout.write(_VERSION); return 0
MainVersion ==
    /\ pc = "start"
    /\ Has(argv, FlagVersion)
    /\ stdout' = VersionString
    /\ status' = 0
    /\ pc' = "done"
    /\ UNCHANGED <<argv, pkgs, index, ci, cflags, libs, exc, readErr>>

\* an action flag without a package name: return 1
MainNoPackages ==
    /\ pc = "start"
    /\ ~Has(argv, FlagVersion)
    /\ WantsAny(argv)
    /\ PkgArgs(argv) = <<>>
    /\ pkgs' = PkgArgs(argv)
    /\ status' = 1
    /\ pc' = "done"
    /\ UNCHANGED <<argv, index, ci, cflags, libs, stdout, exc, readErr>>

\* --exists: return 1 at the first name that is not in the index, else 0
MainExists ==
    /\ pc = "start"
    /\ ~Has(argv, FlagVersion)
    /\ Has(argv, FlagExists)
    /\ PkgArgs(argv) # <<>>
    /\ pkgs' = PkgArgs(argv)
    /\ index' = FindPcFiles(fs, CandidateRoots(fs))
    /\ status' = IF AllKnown(index', pkgs') THEN 0 ELSE 1
    /\ pc' = "done"
    /\ UNCHANGED <<argv, ci, cflags, libs, stdout, exc, readErr>>

ModversionChosen ==
    /\ pc = "start"
    /\ ~Has(argv, FlagVersion)
    /\ ~Has(argv, FlagExists)
    /\ Has(argv, FlagModversion)
    /\ PkgArgs(argv) # <<>>

\* --modversion of a name that is not in the index: return 1
MainModversionUnknown ==
    /\ ModversionChosen
    /\ pkgs' = PkgArgs(argv)
    /\ index' = FindPcFiles(fs, CandidateRoots(fs))
    /\ pkgs'[1] \notin DOMAIN index'
    /\ status' = 1
    /\ pc' = "done"
    /\ UNCHANGED <<argv, ci, cflags, libs, stdout, exc, readErr>>

\* --modversion: the Version field of the first name, unexpanded, "0" without
MainModversion ==
    /\ ModversionChosen
    /\ pkgs' = PkgArgs(argv)
    /\ index' = FindPcFiles(fs, CandidateRoots(fs))
    /\ pkgs'[1] \in DOMAIN index'
    /\ stdout' = Get(ParsePc(LinesOf(index'[pkgs'[1]])).fields, KeyVersion, <<"0">>)
    /\ status' = 0
    /\ pc' = "done"
    /\ UNCHANGED <<argv, ci, cflags, libs, exc, readErr>>

\* --modversion when read_text raises: nothing catches it
MainModversionReadRaises ==
    /\ ModversionChosen
    /\ pkgs' = PkgArgs(argv)
    /\ index' = FindPcFiles(fs, CandidateRoots(fs))
    /\ pkgs'[1] \in DOMAIN index'
    /\ \E e \in ReadErrors : readErr' = e /\ exc' = e
    /\ status' = UncaughtStatus
    /\ pc' = "done"
    /\ UNCHANGED <<argv, ci, cflags, libs, stdout>>

\* --cflags or --libs: _collect(pkgs) starts with its own index and two
\* empty lists
MainCollect ==
    /\ pc = "start"
    /\ ~Has(argv, FlagVersion)
    /\ ~Has(argv, FlagExists)
    /\ ~Has(argv, FlagModversion)
    /\ Has(argv, FlagCflags) \/ Has(argv, FlagLibs)
    /\ PkgArgs(argv) # <<>>
    /\ pkgs' = PkgArgs(argv)
    /\ index' = FindPcFiles(fs, CandidateRoots(fs))
    /\ ci' = 1
    /\ cflags' = <<>>
    /\ libs' = <<>>
    /\ pc' = "collect"
    /\ UNCHANGED <<argv, stdout, status, exc, readErr>>

\* raise FileNotFoundError(pkg), caught in _main: return 1
CollectUnknown ==
    /\ pc = "collect" /\ ci <= Len(pkgs)
    /\ pkgs[ci] \notin DOMAIN index
    /\ status' = NotFoundStatus
    /\ pc' = "done"
    /\ UNCHANGED <<argv, pkgs, index, ci, cflags, libs, stdout, exc, readErr>>

\* one package: parse, seed pcfiledir, expand and split Cflags and Libs
CollectPackage ==
    /\ pc = "collect" /\ ci <= Len(pkgs)
    /\ pkgs[ci] \in DOMAIN index
    /\ cflags' = cflags \o FieldTokens(index[pkgs[ci]], KeyCflags)
    /\ libs' = libs \o FieldTokens(index[pkgs[ci]], KeyLibs)
    /\ ci' = ci + 1
    /\ UNCHANGED <<argv, pkgs, index, stdout, status, exc, pc, readErr>>

\* read_text raises FileNotFoundError inside _collect: the except clause of
\* _main takes it for an unknown package and returns 1
CollectReadMissing ==
    /\ pc = "collect" /\ ci <= Len(pkgs)
    /\ pkgs[ci] \in DOMAIN index
    /\ readErr' = "FileNotFoundError"
    /\ status' = NotFoundStatus
    /\ pc' = "done"
    /\ UNCHANGED <<argv, pkgs, index, ci, cflags, libs, stdout, exc>>

\* read_text raises another error inside _collect: nothing catches it
CollectReadRaises ==
    /\ pc = "collect" /\ ci <= Len(pkgs)
    /\ pkgs[ci] \in DOMAIN index
    /\ readErr' = "OSError"
    /\ exc' = "OSError"
    /\ status' = UncaughtStatus
    /\ pc' = "done"
    /\ UNCHANGED <<argv, pkgs, index, ci, cflags, libs, stdout>>

\* if want_cflags: write(" ".join(cflags)) elif want_libs: write(" ".join(libs))
Written(av, cf, lb) == IF Has(av, FlagCflags) THEN Join(cf) ELSE Join(lb)

\* _collect returned: write the chosen list and return 0
MainWrite ==
    /\ pc = "collect" /\ ci > Len(pkgs)
    /\ stdout' = Written(argv, cflags, libs)
    /\ status' = 0
    /\ pc' = "done"
    /\ UNCHANGED <<argv, pkgs, index, ci, cflags, libs, exc, readErr>>

\* no action flag: return 1
MainNoAction ==
    /\ pc = "start"
    /\ ~Has(argv, FlagVersion)
    /\ ~WantsAny(argv)
    /\ pkgs' = PkgArgs(argv)
    /\ index' = FindPcFiles(fs, CandidateRoots(fs))
    /\ status' = 1
    /\ pc' = "done"
    /\ UNCHANGED <<argv, ci, cflags, libs, stdout, exc, readErr>>

-----------------------------------------------------------------------------
(* The states of the components that a specification does not exercise *)

IdleExpand ==
    /\ s = <<>> /\ vars_ = EmptyDict /\ prev = {} /\ cur = <<>>
    /\ passes = 0 /\ epc = "idle"

IdleParse ==
    /\ lines = <<>> /\ ln = 0 /\ pvars = EmptyDict /\ fields = EmptyDict
    /\ ppc = "idle"

IdleIndex ==
    /\ roots = <<>> /\ ri = 0 /\ fi = 0 /\ out = EmptyDict /\ failed = {}
    /\ ipc = "idle"

IdleMain ==
    /\ argv = <<>> /\ pkgs = <<>> /\ index = EmptyDict /\ ci = 0
    /\ cflags = <<>> /\ libs = <<>> /\ stdout = <<>> /\ status = 0
    /\ exc = "none" /\ readErr = "none" /\ pc = "idle"

NoFs == [none |-> TRUE]

-----------------------------------------------------------------------------
(* Specification of _expand: the loop, from every input below *)

\* the longest chain of variables the inputs hold
MaxChain == 11

Ref(key) == <<"$", "{">> \o key \o <<"}">>

\* the i-th name of a chain: k, kk, kkk, ...
KeyN(i) == [j \in 1..i |-> "k"]

\* k = ${kk}, kk = ${kkk}, ..., the n-th name = 1
ChainVars(n) ==
    [key \in {KeyN(i) : i \in 1..n} |->
        IF Len(key) = n THEN <<"1">> ELSE Ref(KeyN(Len(key) + 1))]

KeyA == <<"a">>
KeyB == <<"b">>
KeyC == <<"c">>

SmallValues ==
    { <<>>, <<"1">>, <<"$">>, Ref(KeyA), Ref(KeyB), Ref(KeyC),
      Ref(KeyA) \o <<"{", "b", "}">>, <<"x">> \o Ref(KeyA) }

SmallInputs ==
    { <<>>, <<"x", " ", "y">>, Ref(KeyA), Ref(KeyB), Ref(KeyC),
      <<"-", "I">> \o Ref(KeyA) \o <<"/">> \o Ref(KeyB),
      <<"$">> \o Ref(KeyC) \o <<"{", "a", "}">>,
      <<"$", "{", "}">>, <<"$", "{", "a">>, <<"$", "{">> \o Ref(KeyA) \o <<"}">> }

SmallDicts == UNION {[D -> SmallValues] : D \in SUBSET {KeyA, KeyB}}

ExpandInputs ==
    [s : SmallInputs, vars : SmallDicts]
    \cup {[s |-> pre \o Ref(KeyN(1)), vars |-> ChainVars(n)] :
            pre \in {<<>>, <<"x">>}, n \in 0..MaxChain}

InitExpand ==
    /\ \E inp \in ExpandInputs :
        /\ s = inp.s
        /\ vars_ = inp.vars
        /\ cur = inp.s
    /\ prev = {}
    /\ passes = 0
    /\ epc = "loop"
    /\ IdleParse /\ IdleIndex /\ IdleMain /\ fs = NoFs

NextExpand ==
    \/ ExpandPass /\ UNCHANGED <<parseVars, fs, indexVars, mainVars>>
    \/ ExpandBreak /\ UNCHANGED <<parseVars, fs, indexVars, mainVars>>
    \/ ExpandExhausted /\ UNCHANGED <<parseVars, fs, indexVars, mainVars>>

SpecExpand == InitExpand /\ [][NextExpand]_vars

-----------------------------------------------------------------------------
(* Claims about _expand *)

\* the names the regular expression finds referenced in t
Refs(t) == {SubSeq(t, i + 2, MatchEnd(t, i) - 1) :
                i \in {j \in 1..Len(t) : MatchEnd(t, j) > 0}}

NoRef(t) == \A i \in 1..Len(t) : MatchEnd(t, i) = 0

\* the names reachable from the names K through the values of d, n levels deep
RECURSIVE Closure(_, _, _)
Closure(K, d, n) ==
    IF n = 0 THEN K
    ELSE Closure(K \cup UNION {Refs(Get(d, key, <<>>)) : key \in K}, d, n - 1)

\* no variable's value refers, directly or through others, to the variable
Acyclic(d) ==
    \A key \in DOMAIN d :
        key \notin Closure(Refs(d[key]), d, Cardinality(DOMAIN d))

SetMax(S) == CHOOSE x \in S : \A y \in S : y <= x

\* the depth of the longest chain of nested references starting in t (for an
\* acyclic d): 0 without a reference, else one more than the deepest value
RECURSIVE Depth(_, _, _)
Depth(t, d, fuel) ==
    IF Refs(t) = {} \/ fuel = 0 THEN 0
    ELSE 1 + SetMax({Depth(Get(d, key, <<>>), d, fuel - 1) : key \in Refs(t)})

DepthOf(t, d) == Depth(t, d, Cardinality(DOMAIN d) + 2)

\* t with each reference replaced by the resolved value of its variable, the
\* empty string when unmapped (for an acyclic d)
RECURSIVE ResolveFrom(_, _, _, _)
ResolveFrom(t, i, d, fuel) ==
    IF i > Len(t) THEN <<>>
    ELSE LET e == MatchEnd(t, i)
         IN  IF e > 0
             THEN (IF fuel = 0 THEN <<>>
                   ELSE ResolveFrom(Get(d, SubSeq(t, i + 2, e - 1), <<>>),
                                    1, d, fuel - 1))
                  \o ResolveFrom(t, e + 1, d, fuel)
             ELSE <<t[i]>> \o ResolveFrom(t, i + 1, d, fuel)

Resolved(t, d) == ResolveFrom(t, 1, d, Cardinality(DOMAIN d) + 2)

Special == {"$", "{", "}"}

\* $, { and } occur in t only as the frame of a ${name} reference
RECURSIVE PlainFrom(_, _)
PlainFrom(t, i) ==
    IF i > Len(t) THEN TRUE
    ELSE LET e == MatchEnd(t, i)
         IN  IF e > 0
             THEN (\A j \in (i + 2)..(e - 1) : t[j] \notin Special)
                  /\ PlainFrom(t, e + 1)
             ELSE t[i] \notin Special /\ PlainFrom(t, i + 1)

Plain(t) == PlainFrom(t, 1)

\* the claim's pass bound
DepthBound == 10

\* C5 (as stated): for every acyclic mapping and every input whose chain of
\* nested references is at most 10 deep, _expand returns the fully resolved
\* string: no reference remains, each one replaced by the resolved value of
\* its variable (the empty string when unmapped).
C5_Original ==
    (epc = "done" /\ Acyclic(vars_) /\ DepthOf(s, vars_) <= DepthBound)
        => /\ NoRef(cur)
           /\ (Plain(s) /\ \A key \in DOMAIN vars_ : Plain(vars_[key]))
                => cur = Resolved(s, vars_)

\* C5 (amended): the same, for inputs and values in which $, { and } occur
\* only as the frame of a ${name} reference, so that no substitution builds a
\* new reference out of pieces.
C5_Resolved ==
    (/\ epc = "done"
     /\ Acyclic(vars_)
     /\ DepthOf(s, vars_) <= DepthBound
     /\ Plain(s)
     /\ \A key \in DOMAIN vars_ : Plain(vars_[key]))
        => (NoRef(cur) /\ cur = Resolved(s, vars_))

\* a chain exactly as deep as the bound was resolved to its last value
C5_Witness ==
    /\ epc = "done"
    /\ Acyclic(vars_) /\ Plain(s) /\ \A key \in DOMAIN vars_ : Plain(vars_[key])
    /\ DepthOf(s, vars_) = DepthBound
    /\ passes = MaxPasses
    /\ cur = <<"x", "1">>

\* the string after n passes over t
RECURSIVE PassN(_, _, _)
PassN(t, d, n) == IF n = 0 THEN t ELSE Sub(PassN(t, d, n - 1), d)

\* C6: _expand terminates for every input and mapping, cyclic ones included:
\* it makes at most 10 passes, stops at the first pass that leaves the string
\* unchanged, and otherwise returns the string the last pass produced.
C6_Bounded ==
    /\ passes <= MaxPasses
    /\ cur = PassN(s, vars_, passes)
    /\ epc = "loop" => ENABLED NextExpand
    /\ epc = "done" =>
        /\ passes >= 1
        /\ \A j \in 1..(passes - 1) :
                PassN(s, vars_, j) # PassN(s, vars_, j - 1)
        /\ passes < MaxPasses =>
                PassN(s, vars_, passes) = PassN(s, vars_, passes - 1)

\* a self-referential variable ran the loop to its bound without a fixed point
C6_Witness ==
    /\ epc = "done"
    /\ ~Acyclic(vars_)
    /\ passes = MaxPasses
    /\ prev # {cur}

-----------------------------------------------------------------------------
(* Specification of _parse_pc: the loop, over every text of at most MaxLines *)
(* lines drawn from SampleLines                                              *)

MaxLines == 3

SampleLines ==
    { <<"k", "=", "v">>,
      <<"k", "=", "w">>,
      <<" ", "k", " ", "=", " ", "v", " ", "w", " ">>,
      <<"j", "=", "w">>,
      <<"k", ":", " ", "v">>,
      <<"k", ":", " ", "w">>,
      <<"j", ":", "v">>,
      <<"k", ":", "a", "=", "b">>,
      <<"k", "=", "C", ":", "/", "u">>,
      <<"k", "=", ":", "v">>,
      <<"#", "k", "=", "v">>,
      <<" ", "#", " ", "k", ":", " ", "v">>,
      <<>>,
      <<" ", "\t">>,
      <<"k", "v">> }

SampleTexts == UNION {[1..n -> SampleLines] : n \in 0..MaxLines}

InitParse ==
    /\ lines \in SampleTexts
    /\ ln = 0
    /\ pvars = EmptyDict
    /\ fields = EmptyDict
    /\ ppc = "loop"
    /\ IdleExpand /\ IdleIndex /\ IdleMain /\ fs = NoFs

NextParse ==
    \/ ParseIgnored /\ UNCHANGED <<expandVars, fs, indexVars, mainVars>>
    \/ ParseField /\ UNCHANGED <<expandVars, fs, indexVars, mainVars>>
    \/ ParseVar /\ UNCHANGED <<expandVars, fs, indexVars, mainVars>>
    \/ ParseOther /\ UNCHANGED <<expandVars, fs, indexVars, mainVars>>
    \/ ParseReturn /\ UNCHANGED <<expandVars, fs, indexVars, mainVars>>

SpecParse == InitParse /\ [][NextParse]_vars

-----------------------------------------------------------------------------
(* Claims about _parse_pc *)

\* The classification the specification states: a field line holds a colon
\* before any equals sign; any other line with an equals sign is a variable
\* assignment.
StatedField(line) ==
    /\ Contains(line, ":")
    /\ ~Contains(line, "=") \/ IndexOf(line, ":") < IndexOf(line, "=")

StatedVar(line) == ~StatedField(line) /\ Contains(line, "=")

\* the lines read so far that are neither blank nor comments
Read == {i \in 1..ln : ~IsIgnored(Strip(lines[i]))}

StatedFieldLines == {i \in Read : StatedField(Strip(lines[i]))}
StatedVarLines == {i \in Read : StatedVar(Strip(lines[i]))}

\* C7: a line with a colon before any equals sign is a field line, any other
\* line with an equals sign is a variable line keyed by the text before the
\* first "=" and never a field; blank lines, comments and lines with neither
\* sign make no entry.
C7_Classification ==
    /\ \A i \in StatedVarLines : KeyOf(Strip(lines[i]), "=") \in DOMAIN pvars
    /\ \A i \in StatedFieldLines : KeyOf(Strip(lines[i]), ":") \in DOMAIN fields
    /\ \A key \in DOMAIN pvars :
        \E i \in StatedVarLines : key = KeyOf(Strip(lines[i]), "=")
    /\ \A key \in DOMAIN fields :
        \E i \in StatedFieldLines : key = KeyOf(Strip(lines[i]), ":")

\* the last line among I
Last(I) == CHOOSE i \in I : \A j \in I : j <= i

\* C9: after parsing, each declared field and each declared variable holds
\* the trimmed value of the last line that declares it, and the two mappings
\* are separate.
C9_LastDeclared ==
    ppc = "done" =>
        /\ \A i \in StatedVarLines :
            LET key == KeyOf(Strip(lines[i]), "=")
                same == {j \in StatedVarLines :
                            KeyOf(Strip(lines[j]), "=") = key}
            IN  /\ key \in DOMAIN pvars
                /\ pvars[key] = ValueOf(Strip(lines[Last(same)]), "=")
        /\ \A i \in StatedFieldLines :
            LET key == KeyOf(Strip(lines[i]), ":")
                same == {j \in StatedFieldLines :
                            KeyOf(Strip(lines[j]), ":") = key}
            IN  /\ key \in DOMAIN fields
                /\ fields[key] = ValueOf(Strip(lines[Last(same)]), ":")

\* What does hold of the parser as written, the lines taken as the parser
\* itself classifies them: the last line wins, per mapping.
FieldLines == {i \in Read : IsFieldLine(Strip(lines[i]))}
VarLines ==
    {i \in Read : ~IsFieldLine(Strip(lines[i])) /\ Contains(Strip(lines[i]), "=")}

LastWriteWins ==
    ppc = "done" =>
        /\ DOMAIN pvars = {KeyOf(Strip(lines[i]), "=") : i \in VarLines}
        /\ DOMAIN fields = {KeyOf(Strip(lines[i]), ":") : i \in FieldLines}
        /\ \A i \in VarLines :
            LET key == KeyOf(Strip(lines[i]), "=")
            IN  pvars[key] = ValueOf(Strip(lines[Last(
                    {j \in VarLines : KeyOf(Strip(lines[j]), "=") = key})]), "=")
        /\ \A i \in FieldLines :
            LET key == KeyOf(Strip(lines[i]), ":")
            IN  fields[key] = ValueOf(Strip(lines[Last(
                    {j \in FieldLines : KeyOf(Strip(lines[j]), ":") = key})]), ":")

-----------------------------------------------------------------------------
(* Specification of _find_pc_files over _candidate_roots, from every        *)
(* filesystem below                                                         *)

NameA == <<"a">>
NameB == <<"b">>

\* the metadata files a filesystem may hold
AllPcFiles ==
    { PcPath(NameA, "p1"), PcPath(NameB, "p1"), PcPath(NameA, "p2"),
      PcPath(NameA, "lib"), PcPath(NameB, "lib"), PcPath(NameA, "zb") }

PathLists == { <<>>, <<"p1">>, <<"p2", "", "p1">>, <<"p1", "p2">>, <<"lib", "p1">> }

\* the sequences without repetition over the set S, of every length
RECURSIVE Arrangements(_)
Arrangements(S) ==
    {<<>>} \cup UNION {{<<x>> \o rest : rest \in Arrangements(S \ {x})} : x \in S}

\* a walk of d over the files F: either every file below d in some order, or
\* (when it raises) some of them
WalksOf(F, d, raising) ==
    LET below == {p \in F : p.dir \in Under(d)}
    IN  IF raising THEN Arrangements(below)
        ELSE {w \in Arrangements(below) : Len(w) = Cardinality(below)}

\* a directory that holds a file exists, and so does the parent of one that
\* exists
ExistsOk(F, E) ==
    /\ \A p \in F : p.dir \in E
    /\ "zbl" \in E => "zb" \in E
    /\ "zb" \in E => "lib" \in E

\* the least set of existing directories for the files F
Holding(F) ==
    LET held == {p.dir : p \in F}
        withZb == IF "zbl" \in held THEN held \cup {"zb"} ELSE held
    IN  IF "zb" \in withZb THEN withZb \cup {"lib"} ELSE withZb

Range(q) == {q[i] : i \in 1..Len(q)}

\* fs is one of the filesystems over the file sets Fs and the path lists Ps:
\* every order of every walk, and (with mayRaise) every walk that raises
\* after yielding some of its paths
FsIn(Fs, Ps, Es, mayRaise) ==
    \E F \in Fs, P \in Ps :
    \E E \in {X \in Es : \A d \in Holding(F) : d \in X} :
        LET env == [pathlist |-> P, exists |-> E]
            rootSet == Range(CandidateRoots(env))
            Walks(d, R) == IF d \in rootSet THEN WalksOf(F, d, d \in R)
                           ELSE {<<>>}
        IN  \E R \in {X \in SUBSET rootSet : mayRaise \/ X = {}} :
            \E w1 \in Walks("p1", R), w2 \in Walks("p2", R), w3 \in Walks("lib", R),
               w4 \in Walks("zb", R), w5 \in Walks("zbl", R) :
                fs = [files |-> F, pathlist |-> P, exists |-> E, raises |-> R,
                      walk |-> [d \in Dirs |->
                                  CASE d = "p1" -> w1 [] d = "p2" -> w2
                                    [] d = "lib" -> w3 [] d = "zb" -> w4
                                    [] OTHER -> w5]]

InitIndex ==
    /\ FsIn(SUBSET AllPcFiles, PathLists, {{"p1", "lib", "zb"}, Dirs}, TRUE)
    /\ roots = CandidateRoots(fs)
    /\ ri = 1
    /\ fi = 0
    /\ out = EmptyDict
    /\ failed = {}
    /\ ipc = "walk"
    /\ IdleExpand /\ IdleParse /\ IdleMain

NextIndex ==
    \/ IndexVisit /\ UNCHANGED <<expandVars, parseVars, fs, mainVars>>
    \/ IndexNextRoot /\ UNCHANGED <<expandVars, parseVars, fs, mainVars>>
    \/ IndexRootRaises /\ UNCHANGED <<expandVars, parseVars, fs, mainVars>>
    \/ IndexReturn /\ UNCHANGED <<expandVars, parseVars, fs, mainVars>>

SpecIndex == InitIndex /\ [][NextIndex]_vars

-----------------------------------------------------------------------------
(* Claims about the package index *)

Names == {p.name : p \in AllPcFiles}

\* the listed positions of the roots that hold a metadata file named n
Holds(n) ==
    {i \in 1..Len(roots) :
        \E p \in fs.files : p.name = n /\ p.dir \in Under(roots[i])}

\* the listed positions of the roots whose walk yields a file named n
Yields(n) ==
    {i \in 1..Len(roots) :
        \E k \in 1..Len(Yielded(fs, roots[i])) :
            Yielded(fs, roots[i])[k].name = n}

SetMin(S) == CHOOSE x \in S : \A y \in S : x <= y

\* an entry, once inserted, keeps its file
NeverOverwritten ==
    \A n \in DOMAIN out : n \in DOMAIN out' /\ out'[n] = out[n]

\* each name held by some root maps to one file of that name, which lies in
\* the earliest-listed root that holds one
FromEarliestHolding ==
    ipc = "done" =>
        /\ DOMAIN out = {n \in Names : Holds(n) # {}}
        /\ \A n \in DOMAIN out :
            /\ out[n] \in fs.files
            /\ out[n].name = n
            /\ out[n].dir \in Under(roots[SetMin(Holds(n))])

\* the same, counting a root only for the files its walk yields
FromEarliestYielding ==
    ipc = "done" =>
        /\ DOMAIN out = {n \in Names : Yields(n) # {}}
        /\ \A n \in DOMAIN out :
            /\ out[n] \in fs.files
            /\ out[n].name = n
            /\ out[n] \in Range(Yielded(fs, roots[SetMin(Yields(n))]))

\* C4 (as stated): once the index is built from the ordered roots, each name
\* maps to exactly one file, from the earliest-listed root that contains a
\* metadata file of that name, whatever the order of enumeration inside each
\* root; an entry once inserted is never overwritten.
C4_Original == [][NeverOverwritten /\ FromEarliestHolding']_vars

\* C4 (amended): the file comes from the earliest-listed root whose walk
\* yields a file of that name: a walk that raises ends its root, and the
\* files it had not yet yielded are not seen.  Where no walk raises this is
\* the claim as stated.
C4_FirstYieldWins ==
    [][/\ NeverOverwritten
       /\ FromEarliestYielding'
       /\ (fs.raises = {}) => FromEarliestHolding']_vars

\* two roots hold different files of one name, the walk of the earlier root
\* yielded its file after another file, and the index kept the earlier root's
C4_Witness ==
    /\ ipc = "done"
    /\ fs.raises = {}
    /\ \E n \in DOMAIN out :
        \E i, j \in Holds(n) :
            /\ i < j
            /\ i = SetMin(Holds(n))
            /\ out[n].dir = roots[i]
            /\ \E p \in fs.files : p.name = n /\ p.dir = roots[j] /\ p # out[n]
            /\ Len(Yielded(fs, roots[i])) >= 2
            /\ Yielded(fs, roots[i])[2] = out[n]

-----------------------------------------------------------------------------
(* Specification of one invocation: _main(argv), from every argument list   *)
(* of at most MaxArgs arguments and every filesystem below                  *)

MaxArgs == 3

\* an option the shim does not know, and an empty argument
FlagOther == <<"-", "x">>
EmptyArg == <<>>

Args ==
    { FlagVersion, FlagExists, FlagModversion, FlagCflags, FlagLibs,
      FlagOther, EmptyArg, NameA, NameB }

Argvs == UNION {[1..n -> Args] : n \in 0..MaxArgs}

MainPcFiles == { PcPath(NameA, "p1"), PcPath(NameA, "lib"), PcPath(NameB, "lib") }

Init ==
    /\ argv \in Argvs
    /\ FsIn(SUBSET MainPcFiles, {<<"p1">>}, {Dirs}, FALSE)
    /\ pkgs = <<>>
    /\ index = EmptyDict
    /\ ci = 0
    /\ cflags = <<>>
    /\ libs = <<>>
    /\ stdout = <<>>
    /\ status = 0
    /\ exc = "none"
    /\ readErr = "none"
    /\ pc = "start"
    /\ IdleExpand /\ IdleParse /\ IdleIndex

Next ==
    \/ MainVersion /\ UNCHANGED <<expandVars, parseVars, fs, indexVars>>
    \/ MainNoPackages /\ UNCHANGED <<expandVars, parseVars, fs, indexVars>>
    \/ MainExists /\ UNCHANGED <<expandVars, parseVars, fs, indexVars>>
    \/ MainModversionUnknown /\ UNCHANGED <<expandVars, parseVars, fs, indexVars>>
    \/ MainModversion /\ UNCHANGED <<expandVars, parseVars, fs, indexVars>>
    \/ MainModversionReadRaises /\ UNCHANGED <<expandVars, parseVars, fs, indexVars>>
    \/ MainCollect /\ UNCHANGED <<expandVars, parseVars, fs, indexVars>>
    \/ CollectUnknown /\ UNCHANGED <<expandVars, parseVars, fs, indexVars>>
    \/ CollectPackage /\ UNCHANGED <<expandVars, parseVars, fs, indexVars>>
    \/ CollectReadMissing /\ UNCHANGED <<expandVars, parseVars, fs, indexVars>>
    \/ CollectReadRaises /\ UNCHANGED <<expandVars, parseVars, fs, indexVars>>
    \/ MainWrite /\ UNCHANGED <<expandVars, parseVars, fs, indexVars>>
    \/ MainNoAction /\ UNCHANGED <<expandVars, parseVars, fs, indexVars>>

Spec == Init /\ [][Next]_vars

-----------------------------------------------------------------------------
(* Claims about one invocation *)

\* the index the invocation builds from the filesystem it runs on
BuiltIndex == FindPcFiles(fs, CandidateRoots(fs))

Requested == PkgArgs(argv)

EveryNameKnown == \A i \in 1..Len(Requested) : Requested[i] \in DOMAIN BuiltIndex

\* the action the dispatcher takes for argv, by its order of tests
Chosen ==
    IF Has(argv, FlagVersion) THEN "version"
    ELSE IF Has(argv, FlagExists) THEN "exists"
    ELSE IF Has(argv, FlagModversion) THEN "modversion"
    ELSE IF Has(argv, FlagCflags) THEN "cflags"
    ELSE IF Has(argv, FlagLibs) THEN "libs"
    ELSE "none"

\* the tokens of one field over the requested packages, package by package
\* in the order requested, each package's field expanded against its own
\* variables
RECURSIVE TokensFrom(_, _)
TokensFrom(field, i) ==
    IF i > Len(Requested) THEN <<>>
    ELSE FieldTokens(BuiltIndex[Requested[i]], field) \o TokensFrom(field, i + 1)

Tokens(field) == TokensFrom(field, 1)

\* C1: for a --cflags (resp. --libs) query whose names are all in the index,
\* stdout is the space-joined tokens of the Cflags (resp. Libs) fields of the
\* packages in request order, each expanded against its own variables, and
\* no other field contributes.
C1_FlagsOutput ==
    (pc = "done" /\ Requested # <<>> /\ EveryNameKnown) =>
        /\ Chosen = "cflags" => stdout = Join(Tokens(KeyCflags))
        /\ Chosen = "libs" => stdout = Join(Tokens(KeyLibs))

\* What does hold of the flags queries as written: the same, for the
\* invocations in which every read of a metadata file succeeds.
FlagsOutputWhenRead ==
    (pc = "done" /\ Requested # <<>> /\ EveryNameKnown /\ readErr = "none") =>
        /\ Chosen = "cflags" => (stdout = Join(Tokens(KeyCflags)) /\ status = 0)
        /\ Chosen = "libs" => (stdout = Join(Tokens(KeyLibs)) /\ status = 0)

\* C2: a --cflags or --libs query with a requested name that is not in the
\* index exits with status 1 and writes nothing to stdout, wherever the
\* unknown name stands: no output for the known packages before it.
C2_UnknownFails ==
    (Chosen \in {"cflags", "libs"} /\ ~EveryNameKnown) =>
        /\ stdout = <<>>
        /\ pc = "done" => status = 1

\* a known package was collected, with tokens, before the unknown one ended
\* the query
C2_Witness ==
    /\ pc = "done"
    /\ Chosen \in {"cflags", "libs"}
    /\ Len(pkgs) = 2 /\ ci = 2
    /\ pkgs[1] \in DOMAIN index /\ pkgs[2] \notin DOMAIN index
    /\ cflags # <<>> /\ libs # <<>>
    /\ readErr = "none"
    /\ status = 1 /\ stdout = <<>>

\* C3 (as stated): every invocation that carries --exists and at least one
\* package name exits 0 if and only if every name is in the index, and writes
\* nothing to stdout, whatever other arguments come with it.
C3_Original ==
    (pc = "done" /\ Has(argv, FlagExists) /\ Requested # <<>>) =>
        /\ status = 0 <=> EveryNameKnown
        /\ stdout = <<>>

\* C3 (amended): the same for every invocation that does not also carry
\* --version, whatever other arguments come with it.
C3_ExistsStatus ==
    (/\ pc = "done"
     /\ Has(argv, FlagExists)
     /\ ~Has(argv, FlagVersion)
     /\ Requested # <<>>) =>
        /\ status = 0 <=> EveryNameKnown
        /\ stdout = <<>>

\* --exists came with two names, the first known and the second not
C3_Witness ==
    /\ pc = "done"
    /\ Has(argv, FlagExists) /\ ~Has(argv, FlagVersion)
    /\ Len(Requested) = 2
    /\ Requested[1] \in DOMAIN BuiltIndex
    /\ Requested[2] \notin DOMAIN BuiltIndex
    /\ status = 1 /\ stdout = <<>>

\* C8: a failure to read a metadata file the index has located is never
\* propagated: --modversion, --cflags and --libs take the content as absent,
\* no exception leaves _main, and only an unknown name is a hard failure.
C8_ReadFailureAbsorbed ==
    /\ exc = "none"
    /\ (pc = "done" /\ readErr # "none" /\ EveryNameKnown) => status = 0

\* the output of the action chosen, when it writes one
ChosenOutput ==
    CASE Chosen = "version" -> stdout = VersionString
      [] Chosen = "modversion" ->
            /\ Requested # <<>>
            /\ Requested[1] \in DOMAIN BuiltIndex
            /\ stdout = Get(ParsePc(LinesOf(BuiltIndex[Requested[1]])).fields,
                            KeyVersion, <<"0">>)
      [] Chosen = "cflags" ->
            Requested # <<>> /\ EveryNameKnown /\ stdout = Join(Tokens(KeyCflags))
      [] Chosen = "libs" ->
            Requested # <<>> /\ EveryNameKnown /\ stdout = Join(Tokens(KeyLibs))
      [] OTHER -> FALSE

\* C10: every invocation performs at most one action, the first of --version,
\* --exists, --modversion, --cflags, --libs that argv holds, wherever it
\* stands; so an invocation with --cflags and --libs and known packages
\* writes the compiler flags only and exits 0, and stdout never holds the
\* output of two actions.
C10_OneAction ==
    /\ stdout = <<>> \/ ChosenOutput
    /\ (/\ pc = "done"
        /\ Has(argv, FlagCflags) /\ Has(argv, FlagLibs)
        /\ Chosen = "cflags"
        /\ Requested # <<>> /\ EveryNameKnown) =>
            (stdout = Join(Tokens(KeyCflags)) /\ status = 0)

\* What does hold of the dispatcher as written: the same, for the
\* invocations in which every read of a metadata file succeeds.
OneActionWhenRead ==
    /\ stdout = <<>> \/ ChosenOutput
    /\ (/\ pc = "done"
        /\ readErr = "none"
        /\ Has(argv, FlagCflags) /\ Has(argv, FlagLibs)
        /\ Chosen = "cflags"
        /\ Requested # <<>> /\ EveryNameKnown) =>
            (stdout = Join(Tokens(KeyCflags)) /\ status = 0)

=============================================================================
